---- MODULE Spec2Model ----
(***************************************************************************)
(* Pin lifecycle and interrupt coordination of src/src/gpio/pin.rs:         *)
(* Pin, the typed views InputPin / OutputPin / AltPin (construction,        *)
(* clear_on_drop, Drop) and InputPin's interrupt operations.                *)
(*                                                                         *)
(* GpioMem (mem.rs), EventLoop and AsyncInterrupt (interrupt.rs) are not    *)
(* part of pin.rs; they are modelled from the interfaces the design         *)
(* document gives for the register backend, the shared event source and     *)
(* the background interrupt runner.                                         *)
(***************************************************************************)
EXTENDS Naturals, FiniteSets, TLC

VARIABLES
    mode,     \* register backend: mode[p], the hardware mode of pin p
    pud,      \* register backend: pud[p], the pull resistor setting of pin p
    level,    \* register backend: level[p], the logic level of pin p
    view,     \* view[p]: the typed view borrowing pin p, or NoView
    sync,     \* event source: sync[p], the synchronous trigger registered for p
    runners,  \* runners[p]: number of live asynchronous-interrupt threads on p
    ret,      \* the last call: operation, pin, result, and the pin's state before it
    triggered,\* event source: triggered[p], the level of the cached trigger event of p
    call,     \* call[p]: the poll_interrupt the thread using pin p's view is blocked in
    inES      \* the threads (named by their pin) holding the event source's MutexGuard

vars == <<mode, pud, level, view, sync, runners, ret, triggered, call, inES>>
\* What a call that is no poll_interrupt leaves alone.
waits == <<call, inES>>

(***************************************************************************)
(* Bounds and value sets                                                    *)
(***************************************************************************)
\* Cap on the live runner threads of one pin (threads are never created
\* beyond it; the program itself has no such cap).
MaxRunners == 2

Pins == {1, 2}
\* The pins whose views the lifecycle specification drives; the remaining
\* pin stays in the state so that every formula also sees that operations
\* on one pin leave another pin's registers, registration and runners alone.
LifecyclePins == {1}

None == "None"
Modes == {"Input", "Output", "Alt0"}
Levels == {"Low", "High"}
Triggers == {"RisingEdge", "FallingEdge"}
PullUpDown == {"Off", "PullUp", "PullDown"}

\* A view: kind, target mode (AltPin's `mode` field, Input / Output for the
\* other two), prev_mode, clear_on_drop, async_interrupt (the handle, named by
\* its trigger, or None).  m0 is history only: the mode read at construction;
\* no operation reads it.
NoView == [kind |-> "NoView", target |-> None, prev_mode |-> None,
           clear_on_drop |-> TRUE, async_interrupt |-> None, m0 |-> None]

\* The interrupt state of pin p as the InputPin operations see it.
IState(p) == [sync |-> sync[p], handle |-> view[p].async_interrupt,
              runners |-> runners[p], triggered |-> triggered[p]]

\* Snapshot of pin p taken when a call starts.
Pre(p) == [mode |-> mode[p], view |-> view[p], sync |-> sync[p],
           runners |-> runners[p]]

\* The thread using pin p's view is in no call: op "none".  In a
\* poll_interrupt: its reset and timeout ("None" or "Finite") arguments, and
\* as history pending (the event cached when the call started, before the
\* reset) and fresh (the event source recorded an event during the call).
NoPoll == [op |-> "none", reset |-> FALSE, timeout |-> None,
           pending |-> None, fresh |-> FALSE]
Idle(p) == call[p].op = "none"

\* The record of a call: op and pin, arg (the trigger or pull setting asked
\* for, or None), ok (the call returned Ok), failed (the first external step
\* that reported a failure during the call, or "none"), wrote (the call
\* wrote the mode register), pre (the pin before the call), value (the
\* Option<Level> a poll_interrupt returned) and poll (that poll_interrupt).
Call(op, p, arg, ok, failed, wrote) ==
    [op |-> op, pin |-> p, arg |-> arg, ok |-> ok, failed |-> failed,
     wrote |-> wrote, pre |-> Pre(p), value |-> None, poll |-> NoPoll]

NoCall == [op |-> "none", pin |-> 1, arg |-> None, ok |-> TRUE,
           failed |-> "none", wrote |-> FALSE,
           pre |-> [mode |-> "Input", view |-> NoView, sync |-> None,
                    runners |-> 0],
           value |-> None, poll |-> NoPoll]

(***************************************************************************)
(* Register backend (GpioMem)                                               *)
(***************************************************************************)
GpioMem_set_mode(regs, p, m) == [regs EXCEPT ![p] = m]
GpioMem_mode(regs, p) == regs[p]
GpioMem_set_pullupdown(regs, p, pm) == [regs EXCEPT ![p] = pm]
GpioMem_set_level(regs, p, l) == [regs EXCEPT ![p] = l]

(***************************************************************************)
(* Shared event source (EventLoop) and background runner (AsyncInterrupt)   *)
(***************************************************************************)
\* register(pin, trigger): on success the pin's registration is `trigger`
\* (replacing any previous one in this one call) and no event is cached for
\* it; on failure nothing is registered anew.
EventLoop_set_interrupt(st, trigger, ok) ==
    IF ok THEN [st EXCEPT !.sync = trigger, !.triggered = None] ELSE st

\* deregister(pin): on success the pin has no registration and no cached
\* event.
EventLoop_clear_interrupt(st, ok) ==
    IF ok THEN [st EXCEPT !.sync = None, !.triggered = None] ELSE st

\* deregister(pin) of a pin with no registration is not an error; with one,
\* the removal can fail (`deregOk`).
EventLoop_clear_ok(st, deregOk) == st.sync = None \/ deregOk

\* wait(pins, reset, ..): reset = true discards the event cached for the pin
\* before waiting.
EventLoop_poll_reset(ev, reset) == IF reset THEN None ELSE ev

\* The level an edge of the registered trigger is reported with.
EdgeLevel(trigger) == IF trigger = "RisingEdge" THEN "High" ELSE "Low"

\* start(fd, pin, trigger, callback): on success a new thread runs.
AsyncInterrupt_new(st, trigger, ok) ==
    IF ok THEN [st EXCEPT !.handle = trigger, !.runners = @ + 1] ELSE st

\* Handle::stop(): on success the thread has exited when stop returns; a
\* failed stop may or may not leave the thread running (`exited`).
AsyncInterrupt_stop(st, ok, exited) ==
    IF ok \/ exited THEN [st EXCEPT !.runners = @ - 1] ELSE st

\* A handle that goes out of scope without stop(): the runner runs until it
\* is explicitly stopped, so its thread stays.
AsyncInterrupt_drop(n, handle) == n

(***************************************************************************)
(* Pin: register delegation                                                 *)
(***************************************************************************)
Pin_mode(p) == GpioMem_mode(mode, p)
Pin_set_mode(p, m) == GpioMem_set_mode(mode, p, m)
Pin_set_pullupdown(p, pm) == GpioMem_set_pullupdown(pud, p, pm)
Pin_set_low(p) == GpioMem_set_level(level, p, "Low")
Pin_set_high(p) == GpioMem_set_level(level, p, "High")
Pin_write(p, l) == IF l = "Low" THEN Pin_set_low(p) ELSE Pin_set_high(p)

(***************************************************************************)
(* Typed views: construction                                                *)
(***************************************************************************)
\* Variant: prev_mode captured after the mode was written.
new_prev_mode_after_write(m0, target) == IF m0 = target THEN None ELSE target

\* let prev_mode = if prev_mode == target { None } else { Some(prev_mode) }
new_prev_mode(m0, target) == IF m0 = target THEN None ELSE m0

\* Variant: set_mode called unconditionally.
new_writes_always(m0, target) == TRUE

\* Construction calls set_mode only in the else branch.
new_writes(m0, target) == m0 # target

\* The mode register after construction.
new_mode(p, m0, target) ==
    IF new_writes(m0, target) THEN Pin_set_mode(p, target) ELSE mode

NewView(p, kind, target, arg) ==
    LET m0 == Pin_mode(p) IN
    /\ view[p].kind = "NoView"
    /\ Idle(p)
    /\ mode' = new_mode(p, m0, target)
    /\ view' = [view EXCEPT ![p] =
                   [kind |-> kind, target |-> target,
                    prev_mode |-> new_prev_mode(m0, target),
                    clear_on_drop |-> TRUE, async_interrupt |-> None,
                    m0 |-> m0]]
    /\ ret' = Call("new", p, arg, TRUE, "none", new_writes(m0, target))

\* Variant: the pull resistor is configured only in the branch that changes
\* the mode.
new_pud_on_mode_change(p, m0, pud_mode) ==
    IF m0 # "Input" THEN Pin_set_pullupdown(p, pud_mode) ELSE pud

\* pin.set_pullupdown(pud_mode), after and outside the if / else on the mode.
new_pud(p, m0, pud_mode) == Pin_set_pullupdown(p, pud_mode)

InputPin_new(p, pud_mode) ==
    /\ NewView(p, "InputPin", "Input", pud_mode)
    /\ pud' = new_pud(p, Pin_mode(p), pud_mode)
    /\ UNCHANGED <<level, sync, runners, triggered, waits>>

OutputPin_new(p) ==
    /\ NewView(p, "OutputPin", "Output", None)
    /\ UNCHANGED <<pud, level, sync, runners, triggered, waits>>

AltPin_new(p, m) ==
    /\ NewView(p, "AltPin", m, None)
    /\ UNCHANGED <<pud, level, sync, runners, triggered, waits>>

as_input(p) == InputPin_new(p, "Off")
as_input_pullup(p) == InputPin_new(p, "PullUp")
as_input_pulldown(p) == InputPin_new(p, "PullDown")
as_output(p) == OutputPin_new(p)
as_alt(p) == \E m \in Modes : AltPin_new(p, m)

(***************************************************************************)
(* impl_output!, impl_drop!                                                 *)
(***************************************************************************)
set_low(p) ==
    /\ view[p].kind \in {"OutputPin", "AltPin"}
    /\ Idle(p)
    /\ level' = Pin_set_low(p)
    /\ ret' = Call("set_low", p, None, TRUE, "none", FALSE)
    /\ UNCHANGED <<mode, pud, view, sync, runners, triggered, waits>>

set_high(p) ==
    /\ view[p].kind \in {"OutputPin", "AltPin"}
    /\ Idle(p)
    /\ level' = Pin_set_high(p)
    /\ ret' = Call("set_high", p, None, TRUE, "none", FALSE)
    /\ UNCHANGED <<mode, pud, view, sync, runners, triggered, waits>>

write(p) ==
    /\ view[p].kind \in {"OutputPin", "AltPin"}
    /\ Idle(p)
    /\ \E l \in Levels : level' = Pin_write(p, l)
    /\ ret' = Call("write", p, None, TRUE, "none", FALSE)
    /\ UNCHANGED <<mode, pud, view, sync, runners, triggered, waits>>

set_clear_on_drop(p) ==
    /\ view[p].kind # "NoView"
    /\ Idle(p)
    /\ \E b \in BOOLEAN : view' = [view EXCEPT ![p].clear_on_drop = b]
    /\ ret' = Call("set_clear_on_drop", p, None, TRUE, "none", FALSE)
    /\ UNCHANGED <<mode, pud, level, sync, runners, triggered, waits>>

\* Variant: Drop::drop without the clear_on_drop test.
drop_writes_ignoring_flag(v) == v.prev_mode # None

\* Whether Drop::drop calls set_mode: not when clear_on_drop is false, and
\* only for a prev_mode of Some.
drop_writes(v) == v.clear_on_drop /\ v.prev_mode # None

\* Variant: the drop puts the pin back into Input mode, whatever mode was
\* captured.
drop_mode_to_input(p, v) ==
    IF drop_writes(v) THEN Pin_set_mode(p, "Input") ELSE mode

\* The mode register after Drop::drop of view v on pin p.
drop_mode(p, v) ==
    IF drop_writes(v) THEN Pin_set_mode(p, v.prev_mode) ELSE mode

\* Variant: the drop also switches the pull resistor off and drives the pin
\* low.
Drop_resetting_pin(p) ==
    /\ view[p].kind # "NoView"
    /\ Idle(p)
    /\ mode' = drop_mode(p, view[p])
    /\ pud' = Pin_set_pullupdown(p, "Off")
    /\ level' = Pin_set_low(p)
    /\ view' = [view EXCEPT ![p] = NoView]
    /\ runners' = [runners EXCEPT
                      ![p] = AsyncInterrupt_drop(@, view[p].async_interrupt)]
    /\ ret' = Call("drop", p, None, TRUE, "none", drop_writes(view[p]))
    /\ UNCHANGED <<sync, triggered, waits>>

\* Drop::drop of the view, then the drop of its fields: an InputPin's
\* async_interrupt handle goes out of scope without clear_async_interrupt,
\* and the pin's synchronous registration is not touched.
Drop(p) ==
    /\ view[p].kind # "NoView"
    /\ Idle(p)
    /\ mode' = drop_mode(p, view[p])
    /\ view' = [view EXCEPT ![p] = NoView]
    /\ runners' = [runners EXCEPT
                      ![p] = AsyncInterrupt_drop(@, view[p].async_interrupt)]
    /\ ret' = Call("drop", p, None, TRUE, "none", drop_writes(view[p]))
    /\ UNCHANGED <<pud, level, sync, triggered, waits>>

(***************************************************************************)
(* InputPin: interrupt coordination, as functions of the pin's interrupt    *)
(* state and of the outcomes of the external calls                          *)
(***************************************************************************)
\* A Result<()> with the interrupt state the call leaves: Ok(()), or the
\* error of the external step that failed.
Ok(st) == [st |-> st, ok |-> TRUE, failed |-> "none"]
Err(st, step) == [st |-> st, ok |-> FALSE, failed |-> step]

\* Variant: the handle is discarded without stop().
clear_async_interrupt_without_stop(st, stopOk, exited) ==
    Ok([st EXCEPT !.handle = None])

\* Variant: calling it on a view that holds no handle is an error.
clear_async_interrupt_strict(st, stopOk, exited) ==
    IF st.handle # None
    THEN LET taken == [st EXCEPT !.handle = None]
             stopped == AsyncInterrupt_stop(taken, stopOk, exited)
         IN  IF stopOk THEN Ok(stopped) ELSE Err(stopped, "stop")
    ELSE Err(st, "stop")

\* if let Some(mut interrupt) = self.async_interrupt.take() { interrupt.stop()?; }
\* take() leaves None in the view whether or not stop() succeeds; the taken
\* handle is dropped when the function returns.
clear_async_interrupt(st, stopOk, exited) ==
    IF st.handle # None
    THEN LET taken == [st EXCEPT !.handle = None]
             stopped == AsyncInterrupt_stop(taken, stopOk, exited)
         IN  IF stopOk THEN Ok(stopped) ELSE Err(stopped, "stop")
    ELSE Ok(st)

\* Variant: clearing the synchronous trigger also discards the handle of the
\* asynchronous interrupt.
clear_interrupt_dropping_handle(st, deregOk) ==
    IF EventLoop_clear_ok(st, deregOk)
    THEN Ok([EventLoop_clear_interrupt(st, TRUE) EXCEPT !.handle = None])
    ELSE Err(EventLoop_clear_interrupt(st, FALSE), "deregister")

\* EventLoop::clear_interrupt(pin) under the lock; its Result is returned.
clear_interrupt(st, deregOk) ==
    IF EventLoop_clear_ok(st, deregOk)
    THEN Ok(EventLoop_clear_interrupt(st, TRUE))
    ELSE Err(EventLoop_clear_interrupt(st, FALSE), "deregister")

\* Variant: the trigger is registered before the asynchronous interrupt is
\* stopped.
set_interrupt_register_first(st, trigger, stopOk, exited, regOk) ==
    IF ~regOk THEN Err(EventLoop_set_interrupt(st, trigger, FALSE), "register")
    ELSE LET r1 == clear_async_interrupt(
                       EventLoop_set_interrupt(st, trigger, TRUE),
                       stopOk, exited)
         IN  r1

\* self.clear_async_interrupt()?; then EventLoop::set_interrupt under the lock.
set_interrupt(st, trigger, stopOk, exited, regOk) ==
    LET r1 == clear_async_interrupt(st, stopOk, exited) IN
    IF ~r1.ok THEN r1
    ELSE IF regOk THEN Ok(EventLoop_set_interrupt(r1.st, trigger, TRUE))
    ELSE Err(EventLoop_set_interrupt(r1.st, trigger, FALSE), "register")

\* Variant: the result of clear_interrupt() is discarded instead of
\* propagated with `?`.
set_async_interrupt_unchecked(st, trigger, deregOk, stopOk, exited, newOk) ==
    LET r1 == clear_interrupt(st, deregOk)
        r2 == clear_async_interrupt(r1.st, stopOk, exited)
        first == IF ~r1.ok THEN r1.failed ELSE r2.failed
    IN  IF ~r2.ok THEN [r2 EXCEPT !.failed = first]
        ELSE IF newOk
             THEN [Ok(AsyncInterrupt_new(r2.st, trigger, TRUE))
                      EXCEPT !.failed = first]
             ELSE Err(AsyncInterrupt_new(r2.st, trigger, FALSE),
                      IF first # "none" THEN first ELSE "start")

\* self.clear_interrupt()?; self.clear_async_interrupt()?; then
\* AsyncInterrupt::new(..)?, stored in self.async_interrupt.
set_async_interrupt(st, trigger, deregOk, stopOk, exited, newOk) ==
    LET r1 == clear_interrupt(st, deregOk) IN
    IF ~r1.ok THEN r1
    ELSE LET r2 == clear_async_interrupt(r1.st, stopOk, exited) IN
         IF ~r2.ok THEN r2
         ELSE IF newOk THEN Ok(AsyncInterrupt_new(r2.st, trigger, TRUE))
         ELSE Err(AsyncInterrupt_new(r2.st, trigger, FALSE), "start")

\* Store the outcome r of operation op on the InputPin of pin p.
Apply(p, op, arg, r) ==
    /\ view[p].kind = "InputPin"
    /\ Idle(p)
    /\ r.st.runners <= MaxRunners
    /\ sync' = [sync EXCEPT ![p] = r.st.sync]
    /\ triggered' = [triggered EXCEPT ![p] = r.st.triggered]
    /\ runners' = [runners EXCEPT ![p] = r.st.runners]
    /\ view' = [view EXCEPT ![p].async_interrupt = r.st.handle]
    /\ ret' = Call(op, p, arg, r.ok, r.failed, FALSE)
    /\ UNCHANGED <<mode, pud, level, waits>>

\* Variant: the event source is used without taking its lock.
event_loop_lock_skipped(t) == TRUE

\* self.pin.event_loop.lock().unwrap(): returns once no other thread holds
\* the guard.  The guard is a temporary of the calling statement and is
\* released when that statement ends.
event_loop_lock(t) == inES \subseteq {t}

\* set_interrupt reaches the lock unless clear_async_interrupt()? returned
\* the error of a failed stop.
InputPin_set_interrupt(p) ==
    \E trigger \in Triggers, stopOk, exited, regOk \in BOOLEAN :
        LET r == set_interrupt(IState(p), trigger, stopOk, exited, regOk) IN
        /\ r.failed # "stop" => event_loop_lock(p)
        /\ Apply(p, "set_interrupt", trigger, r)

InputPin_clear_interrupt(p) ==
    \E deregOk \in BOOLEAN :
        /\ event_loop_lock(p)
        /\ Apply(p, "clear_interrupt", None,
                 clear_interrupt(IState(p), deregOk))

InputPin_set_async_interrupt(p) ==
    \E trigger \in Triggers, deregOk, stopOk, exited, newOk \in BOOLEAN :
        /\ event_loop_lock(p)
        /\ Apply(p, "set_async_interrupt", trigger,
                 set_async_interrupt(IState(p), trigger, deregOk, stopOk,
                                     exited, newOk))

InputPin_clear_async_interrupt(p) ==
    \E stopOk, exited \in BOOLEAN :
        Apply(p, "clear_async_interrupt", None,
              clear_async_interrupt(IState(p), stopOk, exited))

\* A live runner thread of pin p dispatches its callback.
RunnerCallback(p) ==
    /\ runners[p] > 0
    /\ ret' = Call("callback", p, None, TRUE, "none", FALSE)
    /\ UNCHANGED <<mode, pud, level, view, sync, runners, triggered, waits>>

(***************************************************************************)
(* InputPin::poll_interrupt                                                 *)
(***************************************************************************)
\* What EventLoop::poll returns: Ok(Some((pin, level))), Ok(None) or Err.
PollSome(p, l) == [ok |-> TRUE, some |-> TRUE, pin |-> p, level |-> l]
PollNone == [ok |-> TRUE, some |-> FALSE, pin |-> 0, level |-> None]
PollErr == [ok |-> FALSE, some |-> FALSE, pin |-> 0, level |-> None]

\* wait(pins, reset, timeout) for the one pin p, once the reset is done: an
\* error for a pin with no registration or a failed wait, the cached event
\* if there is one, and Ok(None) when a finite timeout elapses with no
\* event.  With no event and no timeout the wait does not return (the empty
\* set).
EventLoop_poll(p, registered, ev, timeout, waitOk) ==
    IF registered = None \/ ~waitOk THEN {PollErr}
    ELSE IF ev # None THEN {PollSome(p, ev)}
    ELSE IF timeout = "Finite" THEN {PollNone}
    ELSE {}

\* let opt = ..poll(&[self], reset, timeout)?;
\* if let Some(trigger) = opt { Ok(Some(trigger.1)) } else { Ok(None) }
poll_interrupt(opt) ==
    IF ~opt.ok THEN [ok |-> FALSE, value |-> None]
    ELSE [ok |-> TRUE, value |-> IF opt.some THEN opt.level ELSE None]

\* poll_interrupt(reset, timeout) is called: the thread of pin p reaches
\* event_loop.lock().
poll_call(p) ==
    /\ view[p].kind = "InputPin"
    /\ Idle(p)
    /\ \E reset \in BOOLEAN, timeout \in {None, "Finite"} :
          call' = [call EXCEPT ![p] =
                     [op |-> "lock", reset |-> reset, timeout |-> timeout,
                      pending |-> None, fresh |-> FALSE]]
    /\ UNCHANGED <<mode, pud, level, view, sync, runners, ret, triggered,
                   inES>>

\* The thread gets the lock and enters EventLoop::poll, which does the reset
\* and then waits.  The MutexGuard is a temporary of the `let opt = ..`
\* statement: it lives until poll has returned.
poll_begin(p) ==
    /\ call[p].op = "lock"
    /\ event_loop_lock(p)
    /\ inES' = inES \cup {p}
    /\ call' = [call EXCEPT ![p] =
                   [@ EXCEPT !.op = "poll", !.pending = triggered[p]]]
    /\ triggered' = [triggered EXCEPT
                        ![p] = EventLoop_poll_reset(@, call[p].reset)]
    /\ UNCHANGED <<mode, pud, level, view, sync, runners, ret>>

\* EventLoop::poll returns, the guard is dropped, the result is mapped.
poll_return(p) ==
    /\ call[p].op = "poll"
    /\ \E waitOk \in BOOLEAN :
       \E opt \in EventLoop_poll(p, sync[p], triggered[p],
                                 call[p].timeout, waitOk) :
          LET r == poll_interrupt(opt) IN
          /\ ret' = [Call("poll_interrupt", p, None, r.ok,
                          IF r.ok THEN "none" ELSE "poll", FALSE)
                        EXCEPT !.value = r.value, !.poll = call[p]]
          /\ triggered' = [triggered EXCEPT
                              ![p] = IF opt.some THEN None ELSE @]
    /\ call' = [call EXCEPT ![p] = NoPoll]
    /\ inES' = inES \ {p}
    /\ UNCHANGED <<mode, pud, level, view, sync, runners>>

\* The hardware produces an edge of the trigger registered for pin p; the
\* event source records it with its level.
Edge(p) ==
    /\ sync[p] # None
    /\ triggered' = [triggered EXCEPT ![p] = EdgeLevel(sync[p])]
    /\ call' = [call EXCEPT
                   ![p] = IF @.op = "poll" THEN [@ EXCEPT !.fresh = TRUE]
                          ELSE @]
    /\ UNCHANGED <<mode, pud, level, view, sync, runners, ret, inES>>

(***************************************************************************)
(* Specification                                                            *)
(***************************************************************************)
Init ==
    /\ mode \in [Pins -> Modes]
    /\ pud = [p \in Pins |-> "Off"]
    /\ level = [p \in Pins |-> "Low"]
    /\ view = [p \in Pins |-> NoView]
    /\ sync = [p \in Pins |-> None]
    /\ runners = [p \in Pins |-> 0]
    /\ ret = NoCall
    /\ triggered = [p \in Pins |-> None]
    /\ call = [p \in Pins |-> NoPoll]
    /\ inES = {}

Next ==
    \E p \in LifecyclePins :
        \/ as_input(p)
        \/ as_input_pullup(p)
        \/ as_input_pulldown(p)
        \/ as_output(p)
        \/ as_alt(p)
        \/ set_low(p)
        \/ set_high(p)
        \/ write(p)
        \/ set_clear_on_drop(p)
        \/ Drop(p)
        \/ InputPin_set_interrupt(p)
        \/ InputPin_clear_interrupt(p)
        \/ InputPin_set_async_interrupt(p)
        \/ InputPin_clear_async_interrupt(p)
        \/ RunnerCallback(p)

Spec == Init /\ [][Next]_vars

\* One InputPin and all its interrupt operations, polling included, with the
\* hardware producing edges.
NextIntr ==
    \E p \in LifecyclePins :
        \/ as_input(p)
        \/ set_clear_on_drop(p)
        \/ InputPin_set_interrupt(p)
        \/ InputPin_clear_interrupt(p)
        \/ InputPin_set_async_interrupt(p)
        \/ InputPin_clear_async_interrupt(p)
        \/ poll_call(p)
        \/ poll_begin(p)
        \/ poll_return(p)
        \/ Edge(p)
        \/ RunnerCallback(p)

SpecIntr == Init /\ [][NextIntr]_vars

\* A thread waiting for the lock gets it if the lock is free again and
\* again, and a wait whose result is ready (an event, an elapsed timeout,
\* the error for a pin with no registration) returns.  A failure of the
\* wait itself is possible but not forced.
Fair(p) ==
    /\ SF_vars(poll_begin(p))
    /\ WF_vars(poll_return(p) /\ (ret'.ok \/ sync[p] = None))

FairIntr == SpecIntr /\ \A p \in LifecyclePins : Fair(p)

\* One thread per pin, each with the InputPin of its pin, using the shared
\* event source concurrently.
NextConc ==
    \E p \in Pins :
        \/ as_input(p)
        \/ InputPin_set_interrupt(p)
        \/ InputPin_clear_interrupt(p)
        \/ poll_call(p)
        \/ poll_begin(p)
        \/ poll_return(p)
        \/ Edge(p)

\* The pins are in Input mode, so that an InputPin changes no mode.
InitConc == Init /\ mode = [p \in Pins |-> "Input"]

SpecConc == InitConc /\ [][NextConc]_vars

FairConc == SpecConc /\ \A p \in Pins : Fair(p)

(***************************************************************************)
(* Properties                                                               *)
(***************************************************************************)
Handle(p) == view[p].async_interrupt
IntrOps == {"set_interrupt", "clear_interrupt", "set_async_interrupt",
            "clear_async_interrupt"}
\* Both delivery mechanisms of pin p are active: a synchronous registration
\* in the event source and a running asynchronous-interrupt thread.
BothActive(s, n) == s # None /\ n > 0

\* C1 (invariant I2): a pin never has a synchronous-trigger registration in
\* the shared event source and a running asynchronous-interrupt thread at
\* the same time.
C1_OneMechanism ==
    \A p \in Pins : ~BothActive(sync[p], runners[p])

\* C2: when the drop of an InputPin that holds a live asynchronous interrupt
\* returns, the handle's thread has exited (so no callback can follow),
\* whatever clear_on_drop is.
C2_DropStopsRunner ==
    (ret.op = "drop" /\ ret.pre.view.async_interrupt # None)
        => runners[ret.pin] = ret.pre.runners - 1

\* C3: mode round trip.  A pin in mode m1 converted into a view with target
\* m2 # m1 gets prev_mode = Some(m1) and is in mode m2 for as long as the
\* view lives, whatever is called on the view; dropping the view with
\* clear_on_drop = true puts the pin back into m1.
C3_ModeRoundTrip ==
    \A p \in Pins :
        /\ (view[p].kind # "NoView" /\ view[p].m0 # view[p].target)
              => /\ view[p].prev_mode = view[p].m0
                 /\ mode[p] = view[p].target
        /\ (ret.op = "new" /\ ret.pin = p)
              => view[p].m0 = ret.pre.mode
        /\ (/\ ret.op = "drop" /\ ret.pin = p
            /\ ret.pre.view.clear_on_drop
            /\ ret.pre.view.m0 # ret.pre.view.target)
              => mode[p] = ret.pre.view.m0

C3_Witness ==
    /\ ret.op = "drop"
    /\ ret.pre.view.clear_on_drop
    /\ ret.pre.view.kind = "AltPin"
    /\ ret.pre.view.m0 = "Output"
    /\ ret.pre.view.target = "Alt0"
    /\ mode[ret.pin] = "Output"

\* C4: the drop of a view whose clear_on_drop is false writes no mode: every
\* pin's mode after the drop is its mode before it, for a prev_mode of Some
\* and of None.
C4_NoRestoreWhenDisabled ==
    [][\A p \in Pins :
          (/\ view[p].kind # "NoView"
           /\ view'[p].kind = "NoView"
           /\ ~view[p].clear_on_drop)
              => (mode' = mode /\ ~ret'.wrote)]_vars

C4_Witness ==
    /\ ret.op = "drop"
    /\ ~ret.pre.view.clear_on_drop
    /\ ret.pre.view.prev_mode = "Output"
    /\ ret.pre.view.kind = "InputPin"
    /\ mode[ret.pin] = "Input"

\* C5: a pin already in mode m converted into a view targeting m gets
\* prev_mode = None; neither the construction nor the drop (for either
\* clear_on_drop) writes the mode, and the pin is in mode m throughout.
C5_SameModeNoWrite ==
    \A p \in Pins :
        /\ (view[p].kind # "NoView" /\ view[p].m0 = view[p].target)
              => (view[p].prev_mode = None /\ mode[p] = view[p].target)
        /\ (ret.op = "new" /\ ret.pin = p /\ ret.pre.mode = view[p].target)
              => (~ret.wrote /\ view[p].prev_mode = None
                  /\ mode[p] = ret.pre.mode)
        /\ (/\ ret.op = "drop" /\ ret.pin = p
            /\ ret.pre.view.m0 = ret.pre.view.target)
              => (~ret.wrote /\ mode[p] = ret.pre.view.target)

C5_Witness ==
    /\ ret.op = "drop"
    /\ ret.pre.view.kind = "OutputPin"
    /\ ret.pre.view.m0 = "Output"
    /\ ~ret.pre.view.clear_on_drop
    /\ mode[ret.pin] = "Output"

C7_FailureRestoresState ==
    (ret.op \in IntrOps /\ ~ret.ok)
        => /\ sync[ret.pin] = ret.pre.sync
           /\ Handle(ret.pin) = ret.pre.view.async_interrupt
           /\ runners[ret.pin] = ret.pre.runners

\* C7 as amended: a failing call arms nothing and does not roll back what it
\* had already disarmed.  Afterwards the synchronous registration is the one
\* before the call or none, the handle is the one before the call or none,
\* and no runner was started; a failing clear_interrupt changes nothing, a
\* failing stop has discarded the handle, and a call that fails only at its
\* last step (register / start) leaves the pin with no handle, and
\* set_async_interrupt then also with no registration.
C7_FailureArmsNothing ==
    LET p == ret.pin IN
    (ret.op \in IntrOps /\ ~ret.ok)
        => /\ sync[p] \in {ret.pre.sync, None}
           /\ Handle(p) \in {ret.pre.view.async_interrupt, None}
           /\ runners[p] <= ret.pre.runners
           /\ ret.failed # "none"
           /\ (ret.failed = "deregister"
                 => /\ sync[p] = ret.pre.sync
                    /\ Handle(p) = ret.pre.view.async_interrupt
                    /\ runners[p] = ret.pre.runners)
           /\ (ret.failed = "stop" => Handle(p) = None)
           /\ (ret.failed = "register"
                 => (Handle(p) = None /\ sync[p] = ret.pre.sync))
           /\ (ret.failed = "start"
                 => (Handle(p) = None /\ sync[p] = None))

C7_Witness ==
    /\ ret.op = "set_async_interrupt"
    /\ ~ret.ok
    /\ ret.failed = "start"
    /\ ret.pre.sync # None
    /\ sync[ret.pin] = None

\* C8 (invariant I3): no runner thread runs without a handle owning it, and
\* a pin has at most one runner thread: the live runners of a pin are
\* exactly the one of its view's handle, if any.
C8_NoAbandonedRunner ==
    \A p \in Pins : runners[p] = IF Handle(p) # None THEN 1 ELSE 0

\* C9: set_interrupt(trigger) called while the view holds an asynchronous
\* interrupt registers the trigger only once the handle's thread has exited;
\* on success the pin's registration is `trigger` and the view has no handle.
C9_StopBeforeRegister ==
    LET p == ret.pin IN
    (ret.op = "set_interrupt" /\ ret.pre.view.async_interrupt # None)
        => /\ (sync[p] # None => runners[p] = ret.pre.runners - 1)
           /\ ret.ok => /\ sync[p] = ret.arg
                        /\ Handle(p) = None
                        /\ runners[p] = ret.pre.runners - 1

C9_Witness ==
    /\ ret.op = "set_interrupt"
    /\ ret.ok
    /\ ret.pre.view.async_interrupt # None
    /\ ret.pre.runners = 1
    /\ sync[ret.pin] = "RisingEdge"
    /\ runners[ret.pin] = 0

\* C10: set_async_interrupt called while a synchronous trigger is registered
\* removes the registration and stops any existing runner before it starts
\* the new one; on success the pin has exactly one runner and no
\* synchronous registration.
C10_DeregisterBeforeStart ==
    LET p == ret.pin IN
    (ret.op = "set_async_interrupt" /\ ret.pre.sync # None)
        => /\ (runners[p] > ret.pre.runners => sync[p] = None)
           /\ ret.ok => /\ sync[p] = None
                        /\ Handle(p) # None
                        /\ runners[p] = 1

\* C11: clear_interrupt and clear_async_interrupt are idempotent.  Called on
\* a pin with no active interrupt of that kind, either one succeeds and
\* changes neither the pin's registration in the event source nor the
\* view's handle nor the running threads; and a clear leaves no active
\* interrupt of its kind behind (clear_interrupt when it succeeds,
\* clear_async_interrupt always), so that the second of two calls in a row is
\* such a vacuous call.
C11_ClearIdempotent ==
    LET p == ret.pin IN
    /\ (ret.op = "clear_interrupt" /\ ret.pre.sync = None)
          => /\ ret.ok
             /\ sync[p] = None
             /\ Handle(p) = ret.pre.view.async_interrupt
             /\ runners[p] = ret.pre.runners
    /\ (ret.op = "clear_async_interrupt"
           /\ ret.pre.view.async_interrupt = None)
          => /\ ret.ok
             /\ Handle(p) = None
             /\ sync[p] = ret.pre.sync
             /\ runners[p] = ret.pre.runners
    /\ (ret.op = "clear_interrupt" /\ ret.ok) => sync[p] = None
    /\ ret.op = "clear_async_interrupt" => Handle(p) = None

\* A vacuous clear_async_interrupt on a pin whose synchronous registration
\* stays.
C11_Witness ==
    /\ ret.op = "clear_async_interrupt"
    /\ ret.ok
    /\ ret.pre.view.async_interrupt = None
    /\ ret.pre.sync = "FallingEdge"
    /\ sync[ret.pin] = "FallingEdge"

\* C13: after the drop of an InputPin whose pin has a synchronous trigger
\* registered, the event source holds no synchronous registration for that
\* pin.
C13_DropClearsRegistration ==
    (/\ ret.op = "drop"
     /\ ret.pre.view.kind = "InputPin"
     /\ ret.pre.sync # None)
        => sync[ret.pin] = None

\* C15 (invariant I1): a live view's prev_mode is Some(m) exactly when the
\* mode m read at construction differed from the target, and None
\* otherwise; no call on the view changes it; and a drop that writes the
\* mode writes exactly the captured m, whatever the register held then.
C15_PrevModeCaptured ==
    \A p \in Pins :
        /\ view[p].kind # "NoView"
              => view[p].prev_mode =
                     (IF view[p].m0 # view[p].target THEN view[p].m0 ELSE None)
        /\ (ret.pin = p /\ ret.op \notin {"none", "new", "drop"})
              => view[p].prev_mode = ret.pre.view.prev_mode
        /\ (ret.pin = p /\ ret.op = "drop")
              => mode[p] = (IF ret.wrote THEN ret.pre.view.prev_mode
                            ELSE ret.pre.mode)
        /\ (ret.pin = p /\ ret.op = "drop" /\ ret.wrote)
              => ret.pre.view.prev_mode = ret.pre.view.m0

\* The drop of an AltPin built on a pin in Output mode writes Output.
C15_Witness ==
    /\ ret.op = "drop"
    /\ ret.wrote
    /\ ret.pre.view.kind = "AltPin"
    /\ ret.pre.view.prev_mode = "Output"
    /\ ret.pre.mode = "Alt0"
    /\ mode[ret.pin] = "Output"

\* C16: after as_input, as_input_pullup or as_input_pulldown the pin's pull
\* configuration is the requested one (Off, PullUp, PullDown), whether
\* prev_mode is None or Some.
C16_PullUnconditional ==
    \A p \in Pins :
        (ret.op = "new" /\ ret.pin = p /\ view[p].kind = "InputPin")
            => /\ ret.arg \in PullUpDown
               /\ pud[p] = ret.arg

\* as_input_pullup on a pin that was already in Input mode.
C16_Witness ==
    /\ ret.op = "new"
    /\ view[ret.pin].kind = "InputPin"
    /\ ret.pre.mode = "Input"
    /\ view[ret.pin].prev_mode = None
    /\ ret.arg = "PullUp"
    /\ pud[ret.pin] = "PullUp"

\* C18: the drop of a view leaves the pull resistor setting and the logic
\* level of every pin as they were, for either value of clear_on_drop.
C18_DropKeepsPullAndLevel ==
    [][\A p \in Pins :
          (view[p].kind # "NoView" /\ view'[p].kind = "NoView")
              => (pud' = pud /\ level' = level)]_vars

\* An OutputPin with clear_on_drop = false has been dropped; the pull set by
\* an earlier InputPin and the level written through the OutputPin are there.
C18_Witness ==
    /\ ret.op = "drop"
    /\ ret.pre.view.kind = "OutputPin"
    /\ ~ret.pre.view.clear_on_drop
    /\ pud[ret.pin] = "PullUp"
    /\ level[ret.pin] = "High"

\* Thread a is inside poll_interrupt and EventLoop::poll has nothing to
\* return: the pin is registered, no event is recorded, no timeout was given.
Blocked(a) ==
    /\ call[a].op = "poll"
    /\ EventLoop_poll(a, sync[a], triggered[a], call[a].timeout, TRUE) = {}

\* C12: poll_interrupt does not hold the event-source lock while it is
\* blocked: while a thread is blocked in poll_interrupt on pin a, the thread
\* of another pin b that calls set_interrupt or clear_interrupt gets the
\* lock.
C12_PollWaitsUnlocked ==
    \A a \in Pins : \A b \in Pins \ {a} :
        (Blocked(a) /\ view[b].kind = "InputPin" /\ Idle(b))
            => event_loop_lock(b)

\* The result of the last poll_interrupt reports an event: one recorded
\* during the wait, or one that was pending when a call with reset = false
\* began.
Reported(c) == c.fresh \/ (~c.reset /\ c.pending # None)

\* C14: poll_interrupt on a pin with a registered trigger and a finite
\* timeout terminates.  It returns Some(level) exactly when the event source
\* reports an event for the pin and Ok(None) when the timeout elapses with
\* none; with reset = true an event recorded before the call does not
\* satisfy it, with reset = false a pending event does, at once.
C14_PollSafety ==
    (ret.op = "poll_interrupt" /\ ret.ok /\ ret.pre.sync # None)
        => /\ ret.value \in Levels <=> Reported(ret.poll)
           /\ ret.value \in Levels => ret.value = EdgeLevel(ret.pre.sync)
           /\ ret.value \notin Levels
                 => (ret.value = None /\ ret.poll.timeout = "Finite")
           /\ (ret.poll.reset /\ ~ret.poll.fresh) => ret.value = None
           /\ (~ret.poll.reset /\ ret.poll.pending # None)
                 => ret.value = ret.poll.pending

C14_PollTerminates ==
    /\ []C14_PollSafety
    /\ \A p \in Pins :
          /\ (call[p].op = "lock" /\ sync[p] # None
                 /\ call[p].timeout = "Finite") ~> (call[p].op = "none")
          /\ (call[p].op = "lock" /\ sync[p] # None
                 /\ ~call[p].reset /\ triggered[p] # None)
                ~> (call[p].op = "none")

\* C17: accesses to the shared event source are mutually exclusive.  At
\* most one thread is inside an event-source operation; a registration
\* changes only in a step taken while no other thread is inside one; and a
\* set_interrupt that replaces a trigger goes from the old registration to
\* the new one in that step, with no state in between.
C17_EventSourceExclusive ==
    [][/\ Cardinality(inES') <= 1
       /\ \A p \in Pins :
             sync'[p] # sync[p]
                 => /\ inES \subseteq {p}
                    /\ (ret'.op = "set_interrupt" /\ ret'.ok)
                          => sync'[p] = ret'.arg]_vars

\* Pin 2's trigger has been replaced while pin 1 is registered and has an
\* event recorded.
C17_Witness ==
    /\ ret.op = "set_interrupt"
    /\ ret.ok
    /\ ret.pin = 2
    /\ ret.pre.sync = "RisingEdge"
    /\ sync[2] = "FallingEdge"
    /\ sync[1] # None
    /\ triggered[1] # None
    /\ inES = {}

\* C19: the two clear operations are independent, and no interrupt
\* operation touches the mode.  clear_interrupt leaves the view's handle and
\* the running threads as they were, clear_async_interrupt leaves the pin's
\* registration as it was, and set_interrupt, set_async_interrupt,
\* clear_interrupt, clear_async_interrupt and poll_interrupt leave the pin's
\* mode and the view's prev_mode and clear_on_drop as they were.
C19_ClearsIndependent ==
    LET p == ret.pin IN
    /\ ret.op = "clear_interrupt"
          => /\ Handle(p) = ret.pre.view.async_interrupt
             /\ runners[p] = ret.pre.runners
    /\ ret.op = "clear_async_interrupt" => sync[p] = ret.pre.sync
    /\ ret.op \in IntrOps \cup {"poll_interrupt"}
          => /\ mode[p] = ret.pre.mode
             /\ view[p].prev_mode = ret.pre.view.prev_mode
             /\ view[p].clear_on_drop = ret.pre.view.clear_on_drop

\* clear_interrupt on a view that holds a live asynchronous interrupt.
C19_Witness ==
    /\ ret.op = "clear_interrupt"
    /\ ret.ok
    /\ Handle(ret.pin) # None
    /\ runners[ret.pin] = 1
    /\ view[ret.pin].prev_mode = "Output"
    /\ ~view[ret.pin].clear_on_drop

====
